---- MODULE Spec2Model ----
(***************************************************************************)
(* Generation orchestration of the product-image editor: the routing       *)
(* table, AIService.generateSync with its primary/fallback failover and    *)
(* artifact persistence, and the asynchronous job lifecycle on top of the  *)
(* in-memory job store.                                                    *)
(*                                                                         *)
(* Every await of the service that crosses the provider or the persistence *)
(* boundary is one step of the model; the code between two awaits runs     *)
(* atomically, as it does on the event loop.                               *)
(***************************************************************************)
EXTENDS Integers, Sequences, FiniteSets, TLC

\* ------------------------------------------------------------------------
\* Bounds of the model
\* ------------------------------------------------------------------------

\* largest number of images one provider outcome carries
MaxImages == 2

\* number of jobs generateAsync creates
MaxJobs == 2

\* number of jobs generateAsync creates while callers poll or time passes
MaxObservedJobs == 1

\* last instant of the clock
MaxTime == 2

\* number of InMemoryJobStore instances created besides the service's
MaxStores == 2

\* ------------------------------------------------------------------------
\* Optional values (a TypeScript `field?:`)
\* ------------------------------------------------------------------------

None == << >>

Some(x) == << x >>

\* ------------------------------------------------------------------------
\* Routing table (router.ts)
\* ------------------------------------------------------------------------

\* `fallback: null`
NULL == "null"

\* the value of a property an object does not have
UNDEFINED == "undefined"

\* the AITask and AIProvider unions (types)
AITask ==
  { "remove-bg", "upscale", "polish", "relight", "scene-gen", "try-on",
    "object-removal", "text-removal" }

AIProvider == { "gemini", "zai" }

GeminiModel == "gemini-2.5-flash-preview-05-20"

ZaiModel == "glm-image"

\* AI_ROUTING without the entry of text-removal
AI_ROUTINGWithoutTextRemoval ==
  [ t \in { "remove-bg", "upscale", "polish", "relight", "scene-gen",
            "try-on", "object-removal" } |->
      CASE t = "scene-gen" -> [primary |-> "zai",    model |-> ZaiModel,    fallback |-> "gemini"]
        [] t = "relight"   -> [primary |-> "gemini", model |-> GeminiModel, fallback |-> NULL]
        [] OTHER           -> [primary |-> "gemini", model |-> GeminiModel, fallback |-> "zai"] ]

AI_ROUTING ==
  [ t \in { "remove-bg", "upscale", "polish", "relight", "scene-gen",
            "try-on", "object-removal", "text-removal" } |->
      CASE t = "remove-bg"      -> [primary |-> "gemini", model |-> GeminiModel, fallback |-> "zai"]
        [] t = "upscale"        -> [primary |-> "gemini", model |-> GeminiModel, fallback |-> "zai"]
        [] t = "polish"         -> [primary |-> "gemini", model |-> GeminiModel, fallback |-> "zai"]
        [] t = "relight"        -> [primary |-> "gemini", model |-> GeminiModel, fallback |-> NULL]
        [] t = "scene-gen"      -> [primary |-> "zai",    model |-> ZaiModel,    fallback |-> "gemini"]
        [] t = "try-on"         -> [primary |-> "gemini", model |-> GeminiModel, fallback |-> "zai"]
        [] t = "object-removal" -> [primary |-> "gemini", model |-> GeminiModel, fallback |-> "zai"]
        [] t = "text-removal"   -> [primary |-> "gemini", model |-> GeminiModel, fallback |-> NULL] ]

\* a task value outside the AITask enum (a cast, as in the router tests)
UnroutedTask == "invalid-task"

\* a task value that names a property AI_ROUTING, an object literal, inherits
\* from Object.prototype: AI_ROUTING[task] is then a function, not undefined
InheritedTask == "constructor"

\* what `config.primary`, `config.model` and `config.fallback` read from that
\* function: undefined each (the fallback is only tested for truthiness, so
\* NULL stands for it)
InheritedConfig == [ primary |-> UNDEFINED, model |-> UNDEFINED, fallback |-> NULL ]

\* getProviderForTask: `AI_ROUTING[task]`, or a thrown Error when that is falsy
HasRouting(task) == task \in DOMAIN AI_ROUTING \/ task = InheritedTask

getProviderForTask(task) ==
  IF task \in DOMAIN AI_ROUTING THEN AI_ROUTING[task] ELSE InheritedConfig

RoutingErrorMessage(task) == "No provider configuration found for task: " \o task

\* ------------------------------------------------------------------------
\* Thrown values and their conversion to a message
\* ------------------------------------------------------------------------

Err(m) == [isError |-> TRUE, message |-> m]

\* a thrown value that is not an instance of Error
NonError == [isError |-> FALSE, message |-> "rejected"]

\* error instanceof Error ? error.message : 'Unknown error'
ErrorMessage(e) == IF e.isError THEN e.message ELSE "Unknown error"

\* ------------------------------------------------------------------------
\* Generation requests
\* ------------------------------------------------------------------------

\* `prompt` absent or empty: buildPrompt falls back to the task default
NoPrompt == ""

\* buildPrompt(input): the explicit prompt when truthy, else the default of
\* the task
buildPrompt(input) ==
  IF input.prompt # NoPrompt THEN input.prompt
  ELSE CASE input.task = "remove-bg" ->
              "Remove the background from this product image, keeping only the product on a transparent or pure white background. Professional product photography style."
         [] input.task = "scene-gen" ->
              "Professional product photography with studio lighting, clean composition, high quality."
         [] input.task = "try-on" ->
              "Fashion model wearing the garment naturally, professional fashion photography, appropriate lighting and pose."
         [] input.task = "upscale" ->
              "Enhance and upscale this image while preserving details and improving quality."
         [] input.task = "polish" ->
              "Polish and enhance this image with improved lighting, clarity, and professional quality."
         [] input.task = "relight" ->
              "Adjust lighting on this image for professional product photography look."
         [] input.task = "object-removal" ->
              "Remove unwanted objects from this image seamlessly."
         [] input.task = "text-removal" ->
              "Remove all text from this image while preserving the background naturally."
         [] OTHER -> "Process this image with professional quality results."

\* getFallbackModel answering with its default case for every provider
getFallbackModelDefaultCase(provider) == GeminiModel

\* getFallbackModel(provider)
getFallbackModel(provider) ==
  CASE provider = "gemini" -> GeminiModel
    [] provider = "zai"    -> ZaiModel
    [] OTHER               -> GeminiModel

\* the GenerateImageParams executeWithProvider hands to generateImage
GenerateImageParams(input, provider, model) ==
  [ provider |-> provider,
    task     |-> input.task,
    prompt   |-> buildPrompt(input),
    model    |-> model,
    inputUrl |-> input.inputUrl,
    providerOptions |-> input.options ]

\* ------------------------------------------------------------------------
\* Image references and the persistence capability (StorageService)
\* ------------------------------------------------------------------------

DataUrl == "data:image/png;base64,iVBORw0KGgo="

HttpUrl == "https://example.com/output.png"

BlobUrl == "blob:nodedata:7f3a"

\* url.startsWith('data:') / 'http://' / 'https://' in saveImage
UrlKind(url) ==
  CASE url = DataUrl -> "data"
    [] url = HttpUrl -> "http"
    [] OTHER         -> "unsupported"

UnsupportedUrlMessage == "Unsupported URL format. Must be a data URL or HTTP/HTTPS URL."

\* the SaveImageResult of the n-th saveImage call of an execution for `task`
\* (generateFilename: a fresh name per call)
SaveImageResult(task, n) ==
  [ filePath  |-> << "/storage", task, n >>,
    publicUrl |-> << "/generated", task, n >> ]

\* ------------------------------------------------------------------------
\* One execution of AIService.generateSync
\*
\* pc names the await the execution is suspended at:
\*   "create"   createImageProvider(provider)       (executeWithProvider)
\*   "call"     providerInstance.generateImage(...) (executeWithProvider)
\*   "save"     storageService.saveImage(url, task) (saveGeneratedImages)
\*   "returned" the promise is fulfilled with `result`
\*   "threw"    the promise is rejected with `thrown`
\* created, called and saveLog record the calls made across the boundaries,
\* raised the values the collaborators threw (with the attempt and the await
\* they were thrown at).
\* ------------------------------------------------------------------------

NewExecution(input) ==
  [ pc           |-> "start",
    input        |-> input,
    attempt      |-> "primary",
    provider     |-> NULL,
    model        |-> "",
    primaryError |-> "",
    images       |-> << >>,
    duration     |-> 0,
    cost         |-> 0,
    idx          |-> 0,
    savedImages  |-> << >>,
    created      |-> << >>,
    called       |-> << >>,
    saveLog      |-> << >>,
    raised       |-> << >>,
    result       |-> None,
    thrown       |-> None ]

\* executeWithProvider up to its first await
executeWithProvider(e, attempt, provider, model) ==
  [ e EXCEPT !.pc = "create", !.attempt = attempt, !.provider = provider,
             !.model = model, !.images = << >>, !.duration = 0, !.cost = 0,
             !.idx = 0, !.savedImages = << >>,
             !.created = Append(@, provider) ]

Return(e, result) == [ e EXCEPT !.pc = "returned", !.result = Some(result) ]

\* SuccessResult with duration and cost interchanged
SuccessResultSwapsCostDuration(e, provider, model) ==
  [ success    |-> TRUE,
    outputUrl  |-> IF Len(e.images) > 0 THEN Some(e.images[1].url) ELSE None,
    outputUrls |-> Some([ i \in 1..Len(e.images) |-> e.images[i].url ]),
    localPath  |-> IF Len(e.savedImages) > 0
                     THEN Some(e.savedImages[1].filePath) ELSE None,
    localPaths |-> Some([ i \in 1..Len(e.savedImages) |-> e.savedImages[i].filePath ]),
    publicUrl  |-> IF Len(e.savedImages) > 0
                     THEN Some(e.savedImages[1].publicUrl) ELSE None,
    publicUrls |-> Some([ i \in 1..Len(e.savedImages) |-> e.savedImages[i].publicUrl ]),
    duration   |-> e.cost,
    cost       |-> e.duration,
    provider   |-> provider,
    model      |-> model,
    error      |-> None ]

\* the success result object of generateSync (both return sites)
SuccessResult(e, provider, model) ==
  [ success    |-> TRUE,
    outputUrl  |-> IF Len(e.images) > 0 THEN Some(e.images[1].url) ELSE None,
    outputUrls |-> Some([ i \in 1..Len(e.images) |-> e.images[i].url ]),
    localPath  |-> IF Len(e.savedImages) > 0
                     THEN Some(e.savedImages[1].filePath) ELSE None,
    localPaths |-> Some([ i \in 1..Len(e.savedImages) |-> e.savedImages[i].filePath ]),
    publicUrl  |-> IF Len(e.savedImages) > 0
                     THEN Some(e.savedImages[1].publicUrl) ELSE None,
    publicUrls |-> Some([ i \in 1..Len(e.savedImages) |-> e.savedImages[i].publicUrl ]),
    duration   |-> e.duration,
    cost       |-> e.cost,
    provider   |-> provider,
    model      |-> model,
    error      |-> None ]

\* FailureResult labelled with the fallback when a fallback was attempted
FailureResultLabelsFallback(config, error) ==
  [ success    |-> FALSE,
    outputUrl  |-> None,
    outputUrls |-> None,
    localPath  |-> None,
    localPaths |-> None,
    publicUrl  |-> None,
    publicUrls |-> None,
    duration   |-> 0,
    cost       |-> 0,
    provider   |-> IF config.fallback # NULL THEN config.fallback ELSE config.primary,
    model      |-> IF config.fallback # NULL
                     THEN getFallbackModel(config.fallback) ELSE config.model,
    error      |-> Some(error) ]

\* the failure result object of generateSync (both return sites)
FailureResult(config, error) ==
  [ success    |-> FALSE,
    outputUrl  |-> None,
    outputUrls |-> None,
    localPath  |-> None,
    localPaths |-> None,
    publicUrl  |-> None,
    publicUrls |-> None,
    duration   |-> 0,
    cost       |-> 0,
    provider   |-> config.primary,
    model      |-> config.model,
    error      |-> Some(error) ]

\* BothFailedMessage with the two messages interchanged
BothFailedMessageSwapped(primaryError, fallbackErrorMessage) ==
  "Primary provider failed: " \o fallbackErrorMessage
    \o ". Fallback provider failed: " \o primaryError

\* `Primary provider failed: ${primaryError}. Fallback provider failed: ${fallbackErrorMessage}`
BothFailedMessage(primaryError, fallbackErrorMessage) ==
  "Primary provider failed: " \o primaryError
    \o ". Fallback provider failed: " \o fallbackErrorMessage

\* AttemptFailed with the prefixed message used also when there is no fallback
AttemptFailedPrefixed(e0, thrown) ==
  LET config == getProviderForTask(e0.input.task)
      e == [ e0 EXCEPT !.raised = Append(@, [ attempt |-> e0.attempt,
                                              stage   |-> e0.pc,
                                              thrown  |-> thrown ]) ]
  IN
  IF e.attempt = "primary"
    THEN LET primaryError == ErrorMessage(thrown) IN
         IF config.fallback # NULL
           THEN executeWithProvider([ e EXCEPT !.primaryError = primaryError ],
                                    "fallback", config.fallback,
                                    getFallbackModel(config.fallback))
           ELSE Return(e, FailureResult(config,
                            "Primary provider failed: " \o primaryError))
    ELSE Return(e, FailureResult(config,
                     BothFailedMessage(e.primaryError, ErrorMessage(thrown))))

\* AttemptFailed without the inner try/catch around the fallback attempt
AttemptFailedRethrows(e0, thrown) ==
  LET config == getProviderForTask(e0.input.task)
      e == [ e0 EXCEPT !.raised = Append(@, [ attempt |-> e0.attempt,
                                              stage   |-> e0.pc,
                                              thrown  |-> thrown ]) ]
  IN
  IF e.attempt = "primary"
    THEN LET primaryError == ErrorMessage(thrown) IN
         IF config.fallback # NULL
           THEN executeWithProvider([ e EXCEPT !.primaryError = primaryError ],
                                    "fallback", config.fallback,
                                    getFallbackModel(config.fallback))
           ELSE Return(e, FailureResult(config, primaryError))
    ELSE [ e EXCEPT !.pc = "threw", !.thrown = Some(thrown) ]

\* AttemptFailed with one more attempt of the primary after the fallback failed
AttemptFailedRetriesPrimary(e0, thrown) ==
  LET config == getProviderForTask(e0.input.task)
      e == [ e0 EXCEPT !.raised = Append(@, [ attempt |-> e0.attempt,
                                              stage   |-> e0.pc,
                                              thrown  |-> thrown ]) ]
  IN
  IF e.attempt = "primary"
    THEN LET primaryError == ErrorMessage(thrown) IN
         IF config.fallback # NULL
           THEN executeWithProvider([ e EXCEPT !.primaryError = primaryError ],
                                    "fallback", config.fallback,
                                    getFallbackModel(config.fallback))
           ELSE Return(e, FailureResult(config, primaryError))
    ELSE IF Len(e.created) < 3
      THEN executeWithProvider(e, "fallback", config.primary, config.model)
      ELSE Return(e, FailureResult(config,
                       BothFailedMessage(e.primaryError, ErrorMessage(thrown))))

\* the two catch clauses of generateSync, entered with the thrown value
AttemptFailed(e0, thrown) ==
  LET config == getProviderForTask(e0.input.task)
      e == [ e0 EXCEPT !.raised = Append(@, [ attempt |-> e0.attempt,
                                              stage   |-> e0.pc,
                                              thrown  |-> thrown ]) ]
  IN
  IF e.attempt = "primary"
    THEN LET primaryError == ErrorMessage(thrown) IN
         IF config.fallback # NULL
           THEN executeWithProvider([ e EXCEPT !.primaryError = primaryError ],
                                    "fallback", config.fallback,
                                    getFallbackModel(config.fallback))
           ELSE Return(e, FailureResult(config, primaryError))
    ELSE Return(e, FailureResult(config,
                     BothFailedMessage(e.primaryError, ErrorMessage(thrown))))

\* AttemptSucceeded with the fallback's result labelled as the primary's
AttemptSucceededLabelsPrimary(e) ==
  LET config == getProviderForTask(e.input.task) IN
  Return(e, SuccessResult(e, config.primary, config.model))

\* the two success return sites of generateSync
AttemptSucceeded(e) ==
  LET config == getProviderForTask(e.input.task) IN
  IF e.attempt = "primary"
    THEN Return(e, SuccessResult(e, config.primary, config.model))
    ELSE Return(e, SuccessResult(e, config.fallback,
                                 getFallbackModel(config.fallback)))

\* the index of the first image at or after `from` whose url is truthy, 0 if
\* there is none (`if (image.url)` in saveGeneratedImages)
NextImageToSave(images, from) ==
  LET candidates == { i \in from..Len(images) : images[i].url # "" } IN
  IF candidates = {} THEN 0
  ELSE CHOOSE i \in candidates : \A j \in candidates : i <= j

\* saveGeneratedImages from image `from` on, up to its next await
saveGeneratedImages(e, from) ==
  LET i == NextImageToSave(e.images, from) IN
  IF i = 0 THEN AttemptSucceeded(e)
  ELSE [ e EXCEPT !.pc = "save", !.idx = i,
                  !.saveLog = Append(@, [url |-> e.images[i].url,
                                         attempt |-> e.attempt]) ]

\* generateSync up to its first await
generateSync(input) ==
  IF ~HasRouting(input.task)
    THEN [ NewExecution(input) EXCEPT
             !.pc = "threw",
             !.thrown = Some(Err(RoutingErrorMessage(input.task))) ]
    ELSE LET config == getProviderForTask(input.task) IN
         executeWithProvider(NewExecution(input), "primary",
                             config.primary, config.model)

\* createImageProvider settles: the default case of its switch always throws
createImageProviderSettled(e, ok, thrown) ==
  IF e.provider \notin AIProvider
    THEN AttemptFailed(e, Err("Unknown AI provider: " \o e.provider))
  ELSE IF ok
    THEN [ e EXCEPT !.pc = "call",
                    !.called = Append(@, GenerateImageParams(e.input, e.provider, e.model)) ]
    ELSE AttemptFailed(e, thrown)

\* generateImage settles with a GenerateImageResult or a thrown value
generateImageSettled(e, ok, outcome, thrown) ==
  IF ok
    THEN saveGeneratedImages([ e EXCEPT !.images = outcome.images,
                                        !.duration = outcome.duration,
                                        !.cost = outcome.cost ], 1)
    ELSE AttemptFailed(e, thrown)

\* saveImage settles: an unsupported reference always throws
saveImageSettled(e, ok, thrown) ==
  LET url == e.images[e.idx].url IN
  IF UrlKind(url) = "unsupported"
    THEN AttemptFailed(e, Err(UnsupportedUrlMessage))
  ELSE IF ok
    THEN saveGeneratedImages(
           [ e EXCEPT !.savedImages =
               Append(@, SaveImageResult(e.input.task, Len(e.saveLog))) ],
           e.idx + 1)
    ELSE AttemptFailed(e, thrown)

\* ------------------------------------------------------------------------
\* The job store (InMemoryJobStore): a map from job id to Job
\* ------------------------------------------------------------------------

\* create(job) without this.jobs.set
JobStoreCreateForgetsSet(store, job, t) == store

\* create(job): stamps createdAt and updatedAt and sets the entry
JobStoreCreate(store, job, t) ==
  [ id \in DOMAIN store \cup { job.id } |->
      IF id = job.id
        THEN [ id          |-> job.id,
               status      |-> job.status,
               task        |-> job.task,
               provider    |-> job.provider,
               input       |-> job.input,
               result      |-> None,
               error       |-> None,
               createdAt   |-> t,
               updatedAt   |-> t,
               completedAt |-> None ]
        ELSE store[id] ]

\* get(id)
JobStoreGet(store, id) == IF id \in DOMAIN store THEN Some(store[id]) ELSE None

\* update(id, updates) writing the updates into every stored job
JobStoreUpdateEveryJob(store, id, updates, t) ==
  IF id \notin DOMAIN store THEN store
  ELSE [ j \in DOMAIN store |->
           [ f \in DOMAIN store[j] |->
               IF f = "updatedAt" THEN t
               ELSE IF f \in DOMAIN updates THEN updates[f]
               ELSE store[j][f] ] ]

\* update(id, updates) that stores a record also when the id is not in the map
JobStoreUpdateUpserts(store, id, updates, t) ==
  LET old == IF id \in DOMAIN store
               THEN store[id]
               ELSE [ id |-> id, status |-> "pending", task |-> "",
                      provider |-> "", input |-> << >>, result |-> None,
                      error |-> None, createdAt |-> t, updatedAt |-> t,
                      completedAt |-> None ] IN
  [ j \in DOMAIN store \cup { id } |->
      IF j = id
        THEN [ f \in DOMAIN old |->
                 IF f = "updatedAt" THEN t
                 ELSE IF f \in DOMAIN updates THEN updates[f]
                 ELSE old[f] ]
        ELSE store[j] ]

\* update(id, updates): { ...job, ...updates, updatedAt: new Date() }, or
\* nothing when the id is not in the map
JobStoreUpdate(store, id, updates, t) ==
  IF id \notin DOMAIN store THEN store
  ELSE [ store EXCEPT ![id] =
           [ f \in DOMAIN store[id] |->
               IF f = "updatedAt" THEN t
               ELSE IF f \in DOMAIN updates THEN updates[f]
               ELSE store[id][f] ] ]

\* delete(id): `this.jobs.delete(id)`
JobStoreDelete(store, id) == [ j \in DOMAIN store \ { id } |-> store[j] ]

\* ------------------------------------------------------------------------
\* The asynchronous path of AIService
\* ------------------------------------------------------------------------

\* NewJob created directly in Processing
NewJobProcessing(jobId, input) ==
  [ id       |-> jobId,
    status   |-> "processing",
    task     |-> input.task,
    provider |-> getProviderForTask(input.task).primary,
    input    |-> input ]

\* the job generateAsync hands to jobStore.create
NewJob(jobId, input) ==
  [ id       |-> jobId,
    status   |-> "pending",
    task     |-> input.task,
    provider |-> getProviderForTask(input.task).primary,
    input    |-> input ]

\* processJobAsync without its first statement
ProcessingUpdateSkipped(store, jobId, t) == store

\* processJobAsync, first statement: the Processing update
ProcessingUpdate(store, jobId, t) ==
  JobStoreUpdate(store, jobId, [ status |-> "processing" ], t)

\* JobResultOf with the local path and the public url interchanged
JobResultOfSwapsPaths(result) ==
  [ outputUrl  |-> result.outputUrl,
    outputUrls |-> result.outputUrls,
    localPath  |-> result.publicUrl,
    localPaths |-> result.publicUrls,
    publicUrl  |-> result.localPath,
    publicUrls |-> result.localPaths,
    duration   |-> result.duration,
    cost       |-> result.cost ]

\* the JobResult processJobAsync copies out of a GenerateResult
JobResultOf(result) ==
  [ outputUrl  |-> result.outputUrl,
    outputUrls |-> result.outputUrls,
    localPath  |-> result.localPath,
    localPaths |-> result.localPaths,
    publicUrl  |-> result.publicUrl,
    publicUrls |-> result.publicUrls,
    duration   |-> result.duration,
    cost       |-> result.cost ]

\* TerminalUpdate without the else branch that records a success=false result
TerminalUpdateDropsFailure(store, jobId, e, t) ==
  IF e.pc = "returned"
    THEN LET result == e.result[1] IN
         IF result.success
           THEN JobStoreUpdate(store, jobId,
                  [ status      |-> "completed",
                    result      |-> Some(JobResultOf(result)),
                    completedAt |-> Some(t) ], t)
           ELSE store
    ELSE JobStoreUpdate(store, jobId,
           [ status      |-> "failed",
             error       |-> Some(ErrorMessage(e.thrown[1])),
             completedAt |-> Some(t) ], t)

\* TerminalUpdate without completedAt in the updates
TerminalUpdateWithoutCompletedAt(store, jobId, e, t) ==
  IF e.pc = "returned"
    THEN LET result == e.result[1] IN
         IF result.success
           THEN JobStoreUpdate(store, jobId,
                  [ status      |-> "completed",
                    result      |-> Some(JobResultOf(result)) ], t)
           ELSE JobStoreUpdate(store, jobId,
                  [ status      |-> "failed",
                    error       |-> result.error ], t)
    ELSE JobStoreUpdate(store, jobId,
           [ status      |-> "failed",
             error       |-> Some(ErrorMessage(e.thrown[1])) ], t)

\* TerminalUpdate deleting the job whose generation failed
TerminalUpdateEvictsFailed(store, jobId, e, t) ==
  IF e.pc = "returned" /\ e.result[1].success
    THEN JobStoreUpdate(store, jobId,
           [ status      |-> "completed",
             result      |-> Some(JobResultOf(e.result[1])),
             completedAt |-> Some(t) ], t)
    ELSE [ id \in DOMAIN store \ { jobId } |-> store[id] ]

\* TerminalUpdate storing the artifact fields of a failed result as well
TerminalUpdateFailedKeepsResult(store, jobId, e, t) ==
  IF e.pc = "returned"
    THEN LET result == e.result[1] IN
         IF result.success
           THEN JobStoreUpdate(store, jobId,
                  [ status      |-> "completed",
                    result      |-> Some(JobResultOf(result)),
                    completedAt |-> Some(t) ], t)
           ELSE JobStoreUpdate(store, jobId,
                  [ status      |-> "failed",
                    result      |-> Some(JobResultOf(result)),
                    error       |-> result.error,
                    completedAt |-> Some(t) ], t)
    ELSE JobStoreUpdate(store, jobId,
           [ status      |-> "failed",
             error       |-> Some(ErrorMessage(e.thrown[1])),
             completedAt |-> Some(t) ], t)

\* TerminalUpdate whose Completed update also writes the serving provider
TerminalUpdateRecordsServingProvider(store, jobId, e, t) ==
  IF e.pc = "returned"
    THEN LET result == e.result[1] IN
         IF result.success
           THEN JobStoreUpdate(store, jobId,
                  [ status      |-> "completed",
                    provider    |-> result.provider,
                    result      |-> Some(JobResultOf(result)),
                    completedAt |-> Some(t) ], t)
           ELSE JobStoreUpdate(store, jobId,
                  [ status      |-> "failed",
                    error       |-> result.error,
                    completedAt |-> Some(t) ], t)
    ELSE JobStoreUpdate(store, jobId,
           [ status      |-> "failed",
             error       |-> Some(ErrorMessage(e.thrown[1])),
             completedAt |-> Some(t) ], t)

\* processJobAsync after generateSync settled as execution e: the Completed
\* update, the Failed update, or the Failed update of the catch clause
TerminalUpdate(store, jobId, e, t) ==
  IF e.pc = "returned"
    THEN LET result == e.result[1] IN
         IF result.success
           THEN JobStoreUpdate(store, jobId,
                  [ status      |-> "completed",
                    result      |-> Some(JobResultOf(result)),
                    completedAt |-> Some(t) ], t)
           ELSE JobStoreUpdate(store, jobId,
                  [ status      |-> "failed",
                    error       |-> result.error,
                    completedAt |-> Some(t) ], t)
    ELSE JobStoreUpdate(store, jobId,
           [ status      |-> "failed",
             error       |-> Some(ErrorMessage(e.thrown[1])),
             completedAt |-> Some(t) ], t)

\* getJobStatus answering an unknown id with a failed status record
getJobStatusReportsFailed(store, jobId) ==
  LET found == JobStoreGet(store, jobId) IN
  IF found = None
    THEN Some([ success     |-> FALSE,
                jobId       |-> jobId,
                status      |-> "failed",
                task        |-> "",
                result      |-> None,
                error       |-> Some("Job not found"),
                createdAt   |-> 0,
                updatedAt   |-> 0,
                completedAt |-> None ])
  ELSE LET job == found[1] IN
       Some([ success     |-> TRUE,
              jobId       |-> job.id,
              status      |-> job.status,
              task        |-> job.task,
              result      |-> job.result,
              error       |-> job.error,
              createdAt   |-> job.createdAt,
              updatedAt   |-> job.updatedAt,
              completedAt |-> job.completedAt ])

\* getJobStatus(jobId): null, or the projection of the job
getJobStatus(store, jobId) ==
  LET found == JobStoreGet(store, jobId) IN
  IF found = None THEN None
  ELSE LET job == found[1] IN
       Some([ success     |-> TRUE,
              jobId       |-> job.id,
              status      |-> job.status,
              task        |-> job.task,
              result      |-> job.result,
              error       |-> job.error,
              createdAt   |-> job.createdAt,
              updatedAt   |-> job.updatedAt,
              completedAt |-> job.completedAt ])

\* ------------------------------------------------------------------------
\* What the collaborators may answer
\* ------------------------------------------------------------------------

Tasks == DOMAIN AI_ROUTING

ExplicitPrompt == "A beautiful product photo"

InputImage == "https://example.com/input.png"

\* a provider-specific option bag (`options?: Record<string, unknown>`)
SizeOption == [ size |-> "1024x1024" ]

\* requests handed to generateSync directly
SyncInputs ==
  [ task : Tasks \cup { UnroutedTask, InheritedTask },
    prompt : { NoPrompt, ExplicitPrompt },
    inputUrl : { Some(InputImage) },
    options : { None, Some(SizeOption) } ]

\* url values of a GeneratedImage (`url: string`, the empty string included)
Urls == { "", DataUrl, HttpUrl, BlobUrl }

SeqsUpTo(S, n) == UNION { [ 1..k -> S ] : k \in 0..n }

\* GenerateImageResult values a provider may resolve with
ProviderOutcomes(urls, n) ==
  [ images   : SeqsUpTo([ url : urls ], n),
    duration : { 1500, 2000 },
    cost     : { 5, 6 } ]

\* values createImageProvider may reject with
CreateThrown == { Err("Failed to initialize provider") }

\* values generateImage may reject with
CallThrown == { Err("Rate limit exceeded"), Err("Network timeout"), NonError }

\* values saveImage may reject with for a supported reference
SaveThrown == { Err("Failed to download image: 404 Not Found") }

\* requests handed to generateAsync
AsyncInputs ==
  [ task : { "scene-gen", "relight", UnroutedTask, InheritedTask },
    prompt : { ExplicitPrompt },
    inputUrl : { Some(InputImage) },
    options : { None } ]

\* what the collaborators answer to a background worker
JobProviderOutcomes ==
  { [ images |-> << [ url |-> HttpUrl ] >>, duration |-> 1500, cost |-> 5 ] }

JobCallThrown == { Err("Rate limit exceeded") }

\* ------------------------------------------------------------------------
\* State
\* ------------------------------------------------------------------------

VARIABLES
  sync,         \* the execution of a direct generateSync call
  jobs,         \* InMemoryJobStore.jobs of the store the AIService holds
  proc,         \* per job id: generateAsync / processJobAsync in flight
  nextId,       \* the next id generateId hands out
  now,          \* the clock new Date() reads
  polled,       \* what the last getJobStatus call returned
  asyncOutcome, \* how the last generateAsync call settled
  globalJobStore, \* the module-level `globalJobStore`: null or an instance
  nextStore,    \* the next InMemoryJobStore instance `new` hands out
  removed       \* per id JobStore.delete removed: where its worker stood then

vars == << sync, jobs, proc, nextId, now, polled, asyncOutcome,
           globalJobStore, nextStore, removed >>

\* the InMemoryJobStore instance the AIService captured when it was
\* constructed (`private jobStore = getJobStore()`); `jobs` is its map
ServiceStore == 1

IdleExecution ==
  [ NewExecution([ task |-> "scene-gen", prompt |-> NoPrompt,
                   inputUrl |-> Some(InputImage), options |-> None ])
      EXCEPT !.pc = "idle" ]

Settled(e) == e.pc \in { "idle", "returned", "threw" }

Init ==
  /\ sync = IdleExecution
  /\ jobs = << >>
  /\ proc = << >>
  /\ nextId = 1
  /\ now = 0
  /\ polled = None
  /\ asyncOutcome = None
  /\ globalJobStore = Some(ServiceStore)
  /\ nextStore = ServiceStore + 1
  /\ removed = << >>

\* ------------------------------------------------------------------------
\* A direct generateSync call and its continuations
\* ------------------------------------------------------------------------

\* a caller invokes generateSync with one of the given requests
SyncCallWith(inputs) ==
  /\ Settled(sync)
  /\ \E input \in inputs : sync' = generateSync(input)
  /\ UNCHANGED << removed, globalJobStore, nextStore, jobs, proc, nextId, now, polled, asyncOutcome >>

SyncCall == SyncCallWith(SyncInputs)

SyncCreateSettled ==
  /\ sync.pc = "create"
  /\ \/ sync' = createImageProviderSettled(sync, TRUE, NonError)
     \/ \E t \in CreateThrown : sync' = createImageProviderSettled(sync, FALSE, t)
  /\ UNCHANGED << removed, globalJobStore, nextStore, jobs, proc, nextId, now, polled, asyncOutcome >>

NoOutcome == [ images |-> << >>, duration |-> 0, cost |-> 0 ]

\* the provider call of the direct generateSync settles with one of the
\* given outcomes or thrown values
SyncCallSettledWith(outcomes, thrown) ==
  /\ sync.pc = "call"
  /\ \/ \E o \in outcomes :
          sync' = generateImageSettled(sync, TRUE, o, NonError)
     \/ \E t \in thrown :
          sync' = generateImageSettled(sync, FALSE, NoOutcome, t)
  /\ UNCHANGED << removed, globalJobStore, nextStore, jobs, proc, nextId, now, polled, asyncOutcome >>

SyncCallSettled == SyncCallSettledWith(ProviderOutcomes(Urls, MaxImages), CallThrown)

SyncSaveSettled ==
  /\ sync.pc = "save"
  /\ \/ sync' = saveImageSettled(sync, TRUE, NonError)
     \/ \E t \in SaveThrown : sync' = saveImageSettled(sync, FALSE, t)
  /\ UNCHANGED << removed, globalJobStore, nextStore, jobs, proc, nextId, now, polled, asyncOutcome >>

NextSync ==
  \/ SyncCall
  \/ SyncCreateSettled
  \/ SyncCallSettled
  \/ SyncSaveSettled

SpecSync == Init /\ [][NextSync]_vars

\* ------------------------------------------------------------------------
\* generateAsync, the background worker, polls and the clock
\* ------------------------------------------------------------------------

\* generateId(): an id no earlier call was given
generateId == nextId

\* generateAsync up to `await this.jobStore.create(...)`: the routing lookup
\* throws before anything is stored, else the job is created Pending
GenerateAsyncCallWith(inputs, limit) ==
  \E input \in inputs :
    IF ~HasRouting(input.task)
      THEN /\ asyncOutcome' = Some([ ok |-> FALSE, jobId |-> 0, status |-> "",
                                     error |-> RoutingErrorMessage(input.task) ])
           /\ UNCHANGED << removed, globalJobStore, nextStore, sync, jobs, proc, nextId, now, polled >>
      ELSE /\ nextId <= limit
           /\ LET jobId == generateId IN
              /\ jobs' = JobStoreCreate(jobs, NewJob(jobId, input), now)
              /\ proc' = [ id \in DOMAIN proc \cup { jobId } |->
                             IF id = jobId
                               THEN [ pc |-> "awaitCreate", input |-> input,
                                      exec |-> IdleExecution ]
                               ELSE proc[id] ]
           /\ nextId' = nextId + 1
           /\ UNCHANGED << removed, globalJobStore, nextStore, sync, now, polled, asyncOutcome >>

GenerateAsyncCall(limit) == GenerateAsyncCallWith(AsyncInputs, limit)

\* generateAsync after the create: processJobAsync runs up to its first
\* await (the Processing update is applied), then generateAsync returns
GenerateAsyncResume(id) ==
  /\ proc[id].pc = "awaitCreate"
  /\ jobs' = ProcessingUpdate(jobs, id, now)
  /\ proc' = [ proc EXCEPT ![id].pc = "awaitProcessing" ]
  /\ asyncOutcome' = Some([ ok |-> TRUE, jobId |-> id, status |-> "pending",
                            error |-> "" ])
  /\ UNCHANGED << removed, globalJobStore, nextStore, sync, nextId, now, polled >>

\* processJobAsync: generateSync(input) is called and runs to its first await
WorkerStart(id) ==
  /\ proc[id].pc = "awaitProcessing"
  /\ proc' = [ proc EXCEPT ![id].pc = "running",
                           ![id].exec = generateSync(proc[id].input) ]
  /\ UNCHANGED << removed, globalJobStore, nextStore, sync, jobs, nextId, now, polled, asyncOutcome >>

WorkerCreateSettled(id) ==
  /\ proc[id].pc = "running"
  /\ proc[id].exec.pc = "create"
  /\ \/ proc' = [ proc EXCEPT ![id].exec =
                    createImageProviderSettled(@, TRUE, NonError) ]
     \/ \E t \in CreateThrown :
          proc' = [ proc EXCEPT ![id].exec =
                      createImageProviderSettled(@, FALSE, t) ]
  /\ UNCHANGED << removed, globalJobStore, nextStore, sync, jobs, nextId, now, polled, asyncOutcome >>

WorkerCallSettled(id) ==
  /\ proc[id].pc = "running"
  /\ proc[id].exec.pc = "call"
  /\ \/ \E o \in JobProviderOutcomes :
          proc' = [ proc EXCEPT ![id].exec =
                      generateImageSettled(@, TRUE, o, NonError) ]
     \/ \E t \in JobCallThrown :
          proc' = [ proc EXCEPT ![id].exec =
                      generateImageSettled(@, FALSE, NoOutcome, t) ]
  /\ UNCHANGED << removed, globalJobStore, nextStore, sync, jobs, nextId, now, polled, asyncOutcome >>

WorkerSaveSettled(id) ==
  /\ proc[id].pc = "running"
  /\ proc[id].exec.pc = "save"
  /\ \/ proc' = [ proc EXCEPT ![id].exec = saveImageSettled(@, TRUE, NonError) ]
     \/ \E t \in SaveThrown :
          proc' = [ proc EXCEPT ![id].exec = saveImageSettled(@, FALSE, t) ]
  /\ UNCHANGED << removed, globalJobStore, nextStore, sync, jobs, nextId, now, polled, asyncOutcome >>

\* processJobAsync after generateSync settled: the terminal update
WorkerFinish(id) ==
  /\ proc[id].pc = "running"
  /\ proc[id].exec.pc \in { "returned", "threw" }
  /\ jobs' = TerminalUpdate(jobs, id, proc[id].exec, now)
  /\ proc' = [ proc EXCEPT ![id].pc = "done", ![id].exec = IdleExecution ]
  /\ UNCHANGED << removed, globalJobStore, nextStore, sync, nextId, now, polled, asyncOutcome >>

\* ids a caller may poll: those handed out, and ones never handed out
PollIds == 1..(MaxJobs + 1)

\* a getJobStatus call that also removes the job it read
PollRemovesJob ==
  /\ \E id \in PollIds :
       /\ polled' = Some([ jobId |-> id, response |-> getJobStatus(jobs, id) ])
       /\ jobs' = [ j \in DOMAIN jobs \ { id } |-> jobs[j] ]
  /\ UNCHANGED << removed, globalJobStore, nextStore, sync, proc, nextId, now, asyncOutcome >>

\* a getJobStatus call
Poll ==
  /\ \E id \in PollIds :
       polled' = Some([ jobId |-> id, response |-> getJobStatus(jobs, id) ])
  /\ UNCHANGED << removed, globalJobStore, nextStore, sync, jobs, proc, nextId, now, asyncOutcome >>

\* time passes
Tick ==
  /\ now < MaxTime
  /\ now' = now + 1
  /\ UNCHANGED << removed, globalJobStore, nextStore, sync, jobs, proc, nextId, polled, asyncOutcome >>

Next ==
  \/ GenerateAsyncCall(MaxJobs)
  \/ \E id \in DOMAIN proc : GenerateAsyncResume(id)
  \/ \E id \in DOMAIN proc : WorkerStart(id)
  \/ \E id \in DOMAIN proc : WorkerCreateSettled(id)
  \/ \E id \in DOMAIN proc : WorkerCallSettled(id)
  \/ \E id \in DOMAIN proc : WorkerSaveSettled(id)
  \/ \E id \in DOMAIN proc : WorkerFinish(id)

\* the jobs and their background workers
Spec == Init /\ [][Next]_vars

\* one step of the generateAsync call or the worker of job id
WorkerStep(id) ==
  /\ id \in DOMAIN proc
  /\ \/ GenerateAsyncResume(id)
     \/ WorkerStart(id)
     \/ WorkerCreateSettled(id)
     \/ WorkerCallSettled(id)
     \/ WorkerSaveSettled(id)
     \/ WorkerFinish(id)

\* the jobs and their workers while callers poll
NextPolled ==
  \/ GenerateAsyncCall(MaxObservedJobs)
  \/ \E id \in DOMAIN proc : GenerateAsyncResume(id)
  \/ \E id \in DOMAIN proc : WorkerStart(id)
  \/ \E id \in DOMAIN proc : WorkerCreateSettled(id)
  \/ \E id \in DOMAIN proc : WorkerCallSettled(id)
  \/ \E id \in DOMAIN proc : WorkerSaveSettled(id)
  \/ \E id \in DOMAIN proc : WorkerFinish(id)
  \/ Poll

SpecPolled == Init /\ [][NextPolled]_vars

\* the event loop runs every continuation that is ready, and every provider
\* and persistence call settles
Fairness == \A id \in 1..MaxObservedJobs : WF_vars(WorkerStep(id))

SpecFair == SpecPolled /\ Fairness

\* the jobs and their workers while time passes
NextTimed ==
  \/ GenerateAsyncCall(MaxObservedJobs)
  \/ \E id \in DOMAIN proc : GenerateAsyncResume(id)
  \/ \E id \in DOMAIN proc : WorkerStart(id)
  \/ \E id \in DOMAIN proc : WorkerCreateSettled(id)
  \/ \E id \in DOMAIN proc : WorkerCallSettled(id)
  \/ \E id \in DOMAIN proc : WorkerSaveSettled(id)
  \/ \E id \in DOMAIN proc : WorkerFinish(id)
  \/ Tick

SpecTimed == Init /\ [][NextTimed]_vars

\* ------------------------------------------------------------------------
\* The module-level job store handle (getJobStore, setJobStore, resetJobStore)
\* ------------------------------------------------------------------------

\* the instance a getJobStore() call made now returns
getJobStore == IF globalJobStore = None THEN nextStore ELSE globalJobStore[1]

\* the jobs map of an instance: only the AIService writes to a store, and it
\* writes to the instance it holds
StoreJobs(store) == IF store = ServiceStore THEN jobs ELSE << >>

\* getJobStore(), called by a route handler or a constructor: creates the
\* instance when there is none
GetJobStoreCall ==
  /\ globalJobStore = None
  /\ nextStore <= ServiceStore + MaxStores
  /\ globalJobStore' = Some(nextStore)
  /\ nextStore' = nextStore + 1
  /\ UNCHANGED << removed, sync, jobs, proc, nextId, now, polled, asyncOutcome >>

\* setJobStore(store) with an existing instance or with a new one
SetJobStoreCall ==
  /\ \/ \E store \in 1..(nextStore - 1) :
          /\ globalJobStore' = Some(store)
          /\ nextStore' = nextStore
     \/ /\ nextStore <= ServiceStore + MaxStores
        /\ globalJobStore' = Some(nextStore)
        /\ nextStore' = nextStore + 1
  /\ UNCHANGED << removed, sync, jobs, proc, nextId, now, polled, asyncOutcome >>

\* resetJobStore()
ResetJobStoreCall ==
  /\ globalJobStore' = None
  /\ UNCHANGED << removed, sync, jobs, proc, nextId, now, polled, asyncOutcome, nextStore >>

\* the jobs and their workers while the store handle is read, set and reset
NextStores ==
  \/ GenerateAsyncCall(MaxObservedJobs)
  \/ \E id \in DOMAIN proc : GenerateAsyncResume(id)
  \/ \E id \in DOMAIN proc : WorkerStart(id)
  \/ \E id \in DOMAIN proc : WorkerCreateSettled(id)
  \/ \E id \in DOMAIN proc : WorkerCallSettled(id)
  \/ \E id \in DOMAIN proc : WorkerSaveSettled(id)
  \/ \E id \in DOMAIN proc : WorkerFinish(id)
  \/ GetJobStoreCall
  \/ SetJobStoreCall
  \/ ResetJobStoreCall

SpecStores == Init /\ [][NextStores]_vars

\* ------------------------------------------------------------------------
\* Direct generateSync calls and polls while jobs are in flight
\* ------------------------------------------------------------------------

\* requests handed to generateAsync while direct calls are made
BackgroundInputs ==
  [ task : { "relight", UnroutedTask },
    prompt : { ExplicitPrompt },
    inputUrl : { Some(InputImage) },
    options : { None } ]

\* requests handed to generateSync while jobs are in flight
DirectInputs ==
  [ task : { "scene-gen", UnroutedTask },
    prompt : { ExplicitPrompt },
    inputUrl : { Some(InputImage) },
    options : { None } ]

NextDirect ==
  \/ GenerateAsyncCallWith(BackgroundInputs, MaxObservedJobs)
  \/ \E id \in DOMAIN proc : GenerateAsyncResume(id)
  \/ \E id \in DOMAIN proc : WorkerStart(id)
  \/ \E id \in DOMAIN proc : WorkerCreateSettled(id)
  \/ \E id \in DOMAIN proc : WorkerCallSettled(id)
  \/ \E id \in DOMAIN proc : WorkerSaveSettled(id)
  \/ \E id \in DOMAIN proc : WorkerFinish(id)
  \/ Poll
  \/ SyncCallWith(DirectInputs)
  \/ SyncCreateSettled
  \/ SyncCallSettledWith(JobProviderOutcomes, JobCallThrown)
  \/ SyncSaveSettled

SpecDirect == Init /\ [][NextDirect]_vars

\* ------------------------------------------------------------------------
\* Jobs removed from the store while their workers run
\* ------------------------------------------------------------------------

\* a JobStore.delete(id) call on the store the AIService holds, for an id
\* that is stored or for one that is not
JobStoreDeleteCall ==
  /\ \E id \in PollIds :
       /\ jobs' = JobStoreDelete(jobs, id)
       /\ removed' = IF id \in DOMAIN jobs
                       THEN [ j \in DOMAIN removed \cup { id } |->
                                IF j = id THEN proc[id].pc ELSE removed[j] ]
                       ELSE removed
  /\ UNCHANGED << sync, proc, nextId, now, polled, asyncOutcome,
                  globalJobStore, nextStore >>

NextRemoval ==
  \/ GenerateAsyncCallWith(BackgroundInputs, MaxObservedJobs)
  \/ \E id \in DOMAIN proc : GenerateAsyncResume(id)
  \/ \E id \in DOMAIN proc : WorkerStart(id)
  \/ \E id \in DOMAIN proc : WorkerCreateSettled(id)
  \/ \E id \in DOMAIN proc : WorkerCallSettled(id)
  \/ \E id \in DOMAIN proc : WorkerSaveSettled(id)
  \/ \E id \in DOMAIN proc : WorkerFinish(id)
  \/ Poll
  \/ JobStoreDeleteCall

SpecRemoval == Init /\ [][NextRemoval]_vars

\* ------------------------------------------------------------------------
\* Properties of the job lifecycle
\* ------------------------------------------------------------------------

TerminalStatuses == { "completed", "failed" }

AllowedTransitions ==
  { << "pending", "processing" >>,
    << "processing", "completed" >>,
    << "processing", "failed" >> }

\* C1: every change of a stored job's status is Pending->Processing,
\* Processing->Completed or Processing->Failed; in particular no job leaves
\* Pending for a terminal status and no job leaves Completed or Failed.
C1_StatusTransitions ==
  [][ \A id \in DOMAIN jobs :
        (id \in DOMAIN jobs' /\ jobs'[id].status # jobs[id].status)
          => << jobs[id].status, jobs'[id].status >> \in AllowedTransitions ]_vars

\* one job went Pending->Processing->Completed, another ->Failed
C1_Witness ==
  \E a, b \in DOMAIN jobs :
    /\ jobs[a].status = "completed"
    /\ jobs[b].status = "failed"

\* C2: under the fairness of the event loop (every ready continuation runs,
\* every provider and persistence call settles) every created job eventually
\* is Completed or Failed.
C2_EventuallyTerminal ==
  \A id \in 1..MaxObservedJobs :
    (id \in DOMAIN jobs)
      ~> (id \in DOMAIN jobs /\ jobs[id].status \in TerminalStatuses)

\* a worker has finished a job as Failed with the error of a persistence
\* failure in the fallback attempt
C2_Witness ==
  \E id \in DOMAIN jobs :
    /\ proc[id].pc = "done"
    /\ jobs[id].status = "failed"
    /\ jobs[id].completedAt # None
    /\ jobs[id].error =
         Some("Primary provider failed: Rate limit exceeded. Fallback provider failed: Failed to download image: 404 Not Found")

\* ------------------------------------------------------------------------
\* Properties of generateSync
\* ------------------------------------------------------------------------

Routed == HasRouting(sync.input.task)

Config == getProviderForTask(sync.input.task)

Returned == sync.pc = "returned"

Res == sync.result[1]

\* the failure message of a thrown value as the caller reads it
ThrownMessage(t) == IF t.isError THEN t.message ELSE "Unknown error"

\* C3: for a task without fallback, a failed primary attempt ends the call
\* after exactly one provider invocation and the result's error is the
\* primary's failure message, unprefixed.
C3_NoFallbackRawError ==
  (Returned /\ Routed /\ Config.fallback = NULL /\ Len(sync.raised) >= 1)
    => /\ Len(sync.created) = 1
       /\ Len(sync.called) <= 1
       /\ ~Res.success
       /\ Res.error = Some(ThrownMessage(sync.raised[1].thrown))

\* relight, primary call rejected with "Network timeout"
C3_Witness ==
  /\ Returned
  /\ sync.input.task = "relight"
  /\ Len(sync.raised) = 1
  /\ sync.raised[1].stage = "call"
  /\ Res.error = Some("Network timeout")

\* C4: for a task with a fallback, a failed primary attempt followed by a
\* fallback attempt that does not fail yields success=true, provider =
\* fallback, after exactly two provider invocations, primary then fallback.
C4_FallbackServes ==
  (Returned /\ Routed /\ Config.fallback # NULL /\ Len(sync.raised) = 1)
    => /\ Res.success
       /\ Res.provider = Config.fallback
       /\ sync.created = << Config.primary, Config.fallback >>

\* scene-gen, zai rejected with "Rate limit exceeded", gemini served one image
C4_Witness ==
  /\ Returned
  /\ sync.input.task = "scene-gen"
  /\ Len(sync.raised) = 1
  /\ sync.raised[1].thrown = Err("Rate limit exceeded")
  /\ Res.provider = "gemini"
  /\ Len(sync.images) = 1

\* C5: the fallback provider is invoked if and only if the primary provider
\* call (construction or generateImage) failed and a fallback is configured;
\* never when the primary provider call itself succeeded.
C5_FallbackIffPrimaryCallFailed ==
  Routed =>
    ( (Len(sync.created) >= 2)
        <=> /\ Config.fallback # NULL
            /\ Len(sync.raised) >= 1
            /\ sync.raised[1].stage \in { "create", "call" } )

\* C6: a persistence failure after a successful provider call makes the
\* whole call fail: it never ends in a success result.
C6_PersistenceFailureFails ==
  (Returned /\ \E i \in 1..Len(sync.raised) : sync.raised[i].stage = "save")
    => ~Res.success

C8_PersistedExactlyOnce ==
  (Returned /\ Res.success)
    => [ k \in 1..Len(sync.saveLog) |-> sync.saveLog[k].url ] = Res.outputUrls[1]

\* C9: for a routed task generateSync never rejects: it settles with a result
\* object, and a success=false result carries an error string.
C9_NeverThrows ==
  Routed =>
    /\ sync.pc # "threw"
    /\ sync.thrown = None
    /\ Returned => /\ sync.result # None
                   /\ ~Res.success => Res.error # None

\* provider construction failed in the primary attempt, persistence in the
\* fallback attempt
C9_Witness ==
  /\ Returned
  /\ ~Res.success
  /\ Len(sync.raised) = 2
  /\ sync.raised[1].stage = "create"
  /\ sync.raised[2].stage = "save"

\* C10: when both attempts fail the result is success=false with error
\* 'Primary provider failed: {m1}. Fallback provider failed: {m2}', m1 the
\* primary's and m2 the fallback's failure message, duration=0 and cost=0.
C10_BothFailed ==
  (Returned /\ Len(sync.raised) = 2)
    => /\ ~Res.success
       /\ Res.error =
            Some("Primary provider failed: "
                   \o ThrownMessage(sync.raised[1].thrown)
                   \o ". Fallback provider failed: "
                   \o ThrownMessage(sync.raised[2].thrown))
       /\ Res.duration = 0
       /\ Res.cost = 0

\* both attempts failed, with different messages
C10_Witness ==
  /\ Returned
  /\ Len(sync.raised) = 2
  /\ sync.raised[1].thrown = Err("Network timeout")
  /\ sync.raised[2].thrown = NonError

\* C11: every success=false result has duration=0 and cost=0 and carries the
\* task's primary provider and the routing entry's model, with and without a
\* fallback attempt.
C11_FailureLabelledPrimary ==
  (Returned /\ ~Res.success)
    => /\ Res.duration = 0
       /\ Res.cost = 0
       /\ sync.input.task \in DOMAIN AI_ROUTING
            => /\ Res.provider = AI_ROUTING[sync.input.task].primary
               /\ Res.model = AI_ROUTING[sync.input.task].model

\* remove-bg failed after gemini and then zai (the fallback) were attempted;
\* the result is labelled gemini
C11_Witness ==
  /\ Returned
  /\ ~Res.success
  /\ sync.input.task = "remove-bg"
  /\ sync.created = << "gemini", "zai" >>
  /\ Res.provider = "gemini"
  /\ Res.model = GeminiModel

\* the providers generateImage was called on, in call order
CalledProviders == [ i \in 1..Len(sync.called) |-> sync.called[i].provider ]

\* C12: a generateSync call on a routed task attempts the primary provider
\* exactly once, first; the fallback at most once, only after the primary
\* attempt has failed; never a third attempt, and generateImage is called at
\* most once on each provider attempted.
C12_AtMostOneRetry ==
  (Routed /\ sync.pc # "idle")
    => /\ Len(sync.created) \in { 1, 2 }
       /\ sync.created[1] = Config.primary
       /\ Len(sync.created) = 2
            => /\ Config.fallback # NULL
               /\ sync.created[2] = Config.fallback
               /\ sync.created[2] # sync.created[1]
               /\ Len(sync.raised) >= 1
               /\ sync.raised[1].attempt = "primary"
       /\ Len(sync.called) <= Len(sync.created)
       /\ \A i, j \in 1..Len(sync.called) :
            CalledProviders[i] = CalledProviders[j] => i = j
       /\ \A i \in 1..Len(sync.called) :
            \E k \in 1..Len(sync.created) : sync.created[k] = CalledProviders[i]

\* both attempts were made, both generateImage calls happened, both failed
C12_Witness ==
  /\ Returned
  /\ Len(sync.created) = 2
  /\ Len(sync.called) = 2
  /\ Len(sync.raised) = 2
  /\ sync.raised[2].stage = "save"

\* ------------------------------------------------------------------------
\* Properties of jobs as callers observe them
\* ------------------------------------------------------------------------

\* what getJobStatus reports for a stored job
Reported(store, id) == getJobStatus(store, id)[1]

\* C13: a job is reported Completed or Failed exactly when it has a
\* completedAt; completedAt is set by the step that makes the job terminal,
\* to the time of that step; and once a job is reported terminal, every later
\* report has the same status and the same completedAt.
C13_OneTerminalTransition ==
  /\ [](\A id \in DOMAIN jobs :
          (Reported(jobs, id).status \in TerminalStatuses)
            <=> (Reported(jobs, id).completedAt # None))
  /\ [][ \A id \in DOMAIN jobs :
           /\ getJobStatus(jobs', id) # None
           /\ (Reported(jobs, id).status \in TerminalStatuses)
                => /\ Reported(jobs', id).status = Reported(jobs, id).status
                   /\ Reported(jobs', id).completedAt = Reported(jobs, id).completedAt
           /\ (/\ Reported(jobs, id).status \notin TerminalStatuses
               /\ Reported(jobs', id).status \in TerminalStatuses)
                => Reported(jobs', id).completedAt = Some(now') ]_vars

\* a job became Completed at time 1 and is still reported so at time 2
C13_Witness ==
  \E id \in DOMAIN jobs :
    /\ Reported(jobs, id).status = "completed"
    /\ Reported(jobs, id).completedAt = Some(1)
    /\ now = 2

\* C14: a job enters the store with status Pending, in a step of its
\* generateAsync call that precedes the call's return and the Processing
\* update; a poll reports Processing, Completed or Failed only for a job that
\* is in the store and has left Pending; and a returned generateAsync call
\* names a stored job.
C14_PendingFirst ==
  /\ [][ \A id \in PollIds :
           (getJobStatus(jobs, id) = None /\ getJobStatus(jobs', id) # None)
             => /\ Reported(jobs', id).status = "pending"
                /\ id \in DOMAIN proc'
                /\ proc'[id].pc = "awaitCreate"
                /\ asyncOutcome' = asyncOutcome ]_vars
  /\ []((polled # None /\ polled[1].response # None
           /\ polled[1].response[1].status # "pending")
          => /\ polled[1].jobId \in DOMAIN jobs
             /\ jobs[polled[1].jobId].status # "pending"
             /\ proc[polled[1].jobId].pc # "awaitCreate")
  /\ []((asyncOutcome # None /\ asyncOutcome[1].ok)
          => asyncOutcome[1].jobId \in DOMAIN jobs)

\* a poll reported Processing for a job whose generateAsync call has returned
C14_Witness ==
  /\ polled # None
  /\ polled[1].response # None
  /\ polled[1].response[1].status = "processing"
  /\ asyncOutcome # None
  /\ asyncOutcome[1].ok
  /\ asyncOutcome[1].jobId = polled[1].jobId

\* C15: the step in which a generateAsync call returns resolves it with
\* success, the job's id and status 'pending'; in the state it returns to,
\* getJobStatus finds the job, its stored status is Pending or Processing, and
\* no provider or persistence call of the job has been made yet.
C15_ReturnsBeforeWork ==
  [][ \A id \in DOMAIN proc :
        (proc[id].pc = "awaitCreate" /\ proc'[id].pc # "awaitCreate")
          => /\ asyncOutcome' # None
             /\ asyncOutcome'[1].ok
             /\ asyncOutcome'[1].jobId = id
             /\ asyncOutcome'[1].status = "pending"
             /\ getJobStatus(jobs', id) # None
             /\ Reported(jobs', id).status \in { "pending", "processing" }
             /\ Reported(jobs', id).completedAt = None
             /\ proc'[id].exec.created = << >>
             /\ proc'[id].exec.called = << >>
             /\ proc'[id].exec.saveLog = << >> ]_vars

\* the call for the second job has returned, its worker has not started, and
\* the first job is already finished
C15_Witness ==
  /\ asyncOutcome # None
  /\ asyncOutcome[1].ok
  /\ asyncOutcome[1].jobId = 2
  /\ proc[2].pc = "awaitProcessing"
  /\ jobs[2].status = "processing"
  /\ jobs[1].status \in TerminalStatuses

\* C16: the step that ends a job's worker finds the worker's generateSync
\* call, made with the job's own request, returned; the job becomes Completed
\* exactly when that result has success=true, with Job.result holding the
\* result's outputUrl(s), localPath(s), publicUrl(s), duration and cost; and
\* Failed exactly when it has success=false, with Job.error the result's error.
C16_JobMirrorsSyncResult ==
  [][ \A id \in DOMAIN proc :
        (proc[id].pc = "running" /\ proc'[id].pc = "done")
          => /\ proc[id].exec.pc = "returned"
             /\ proc[id].exec.input = jobs'[id].input
             /\ jobs'[id].status \in TerminalStatuses
             /\ (jobs'[id].status = "completed") <=> proc[id].exec.result[1].success
             /\ proc[id].exec.result[1].success
                  => /\ jobs'[id].result # None
                     /\ jobs'[id].result[1].outputUrl  = proc[id].exec.result[1].outputUrl
                     /\ jobs'[id].result[1].outputUrls = proc[id].exec.result[1].outputUrls
                     /\ jobs'[id].result[1].localPath  = proc[id].exec.result[1].localPath
                     /\ jobs'[id].result[1].localPaths = proc[id].exec.result[1].localPaths
                     /\ jobs'[id].result[1].publicUrl  = proc[id].exec.result[1].publicUrl
                     /\ jobs'[id].result[1].publicUrls = proc[id].exec.result[1].publicUrls
                     /\ jobs'[id].result[1].duration   = proc[id].exec.result[1].duration
                     /\ jobs'[id].result[1].cost       = proc[id].exec.result[1].cost
                     /\ jobs'[id].error = None
             /\ ~proc[id].exec.result[1].success
                  => /\ jobs'[id].error = proc[id].exec.result[1].error
                     /\ jobs'[id].error # None
                     /\ jobs'[id].result = None ]_vars

\* one job Completed with the image a provider produced, another Failed
\* with the raw error of a task without fallback
C16_Witness ==
  \E a, b \in DOMAIN jobs :
    /\ jobs[a].status = "completed"
    /\ jobs[a].task = "scene-gen"
    /\ jobs[a].result # None
    /\ jobs[a].result[1].outputUrls = Some(<< HttpUrl >>)
    /\ jobs[a].result[1].cost = 5
    /\ jobs[b].status = "failed"
    /\ jobs[b].task = "relight"
    /\ jobs[b].error = Some("Rate limit exceeded")

\* C17: every step that changes a stored job gives it an updatedAt strictly
\* greater than the one it had.
C17_UpdatedAtStrictlyIncreases ==
  [][ \A id \in DOMAIN jobs :
        (id \in DOMAIN jobs' /\ jobs'[id] # jobs[id])
          => jobs'[id].updatedAt > jobs[id].updatedAt ]_vars

C19_UnknownIdNotFound ==
  /\ [](\A id \in PollIds \ DOMAIN jobs : getJobStatus(jobs, id) = None)
  /\ [](\A id \in DOMAIN jobs :
          jobs[id].status = "failed"
            => /\ getJobStatus(jobs, id) # None
               /\ Reported(jobs, id).success
               /\ Reported(jobs, id).status = "failed"
               /\ Reported(jobs, id).error # None)
  /\ [][ (polled' # polled /\ polled'[1].jobId \notin DOMAIN jobs)
           => polled'[1].response = None ]_vars

\* an id that was never handed out is polled and not found while another
\* job is stored as Failed
C19_Witness ==
  /\ polled # None
  /\ polled[1].jobId \notin DOMAIN jobs
  /\ polled[1].response = None
  /\ \E id \in DOMAIN jobs : jobs[id].status = "failed"

\* the messages a single failed attempt of a worker can leave
AttemptErrors ==
  { "Failed to initialize provider", "Rate limit exceeded",
    "Failed to download image: 404 Not Found", UnsupportedUrlMessage,
    "Unknown AI provider: undefined" }

\* the messages both attempts of a worker can leave when both failed
BothAttemptsErrors ==
  { "Primary provider failed: " \o a \o ". Fallback provider failed: " \o b :
      a \in AttemptErrors, b \in AttemptErrors }

\* the error strings a failed job of the given task can carry
OwnErrors(task) ==
  IF getProviderForTask(task).fallback = NULL
    THEN AttemptErrors ELSE BothAttemptsErrors

\* C20: with several jobs in flight, a step that changes a stored job is a
\* step of that job's own generateAsync call or worker and changes no other
\* job; a step of one job's worker leaves every other job's record unchanged;
\* and each job carries its own request, a Completed job the artifacts
\* persisted for its own task, a Failed job an error of its own task's
\* routing.
C20_JobsIsolated ==
  /\ [][ \A id \in DOMAIN jobs :
           jobs'[id] # jobs[id]
             => /\ proc'[id] # proc[id]
                /\ \A o \in DOMAIN jobs \ { id } :
                     jobs'[o] = jobs[o] /\ proc'[o] = proc[o] ]_vars
  /\ [][ \A id \in DOMAIN proc :
           proc'[id] # proc[id]
             => \A o \in DOMAIN jobs \ { id } : jobs'[o] = jobs[o] ]_vars
  /\ [](\A id \in DOMAIN jobs :
          /\ jobs[id].id = id
          /\ jobs[id].input = proc[id].input
          /\ jobs[id].task = proc[id].input.task
          /\ jobs[id].status = "completed"
               => /\ jobs[id].result # None
                  /\ \A i \in 1..Len(jobs[id].result[1].publicUrls[1]) :
                       /\ jobs[id].result[1].publicUrls[1][i][2] = jobs[id].task
                       /\ jobs[id].result[1].localPaths[1][i][2] = jobs[id].task
          /\ jobs[id].status = "failed"
               => /\ jobs[id].error # None
                  /\ jobs[id].error[1] \in OwnErrors(jobs[id].task))

\* a scene-gen job is Completed with its own artifact while the worker of a
\* relight job is between its provider call and its persistence call
C20_Witness ==
  \E a, b \in DOMAIN jobs :
    /\ jobs[a].task = "scene-gen"
    /\ jobs[a].status = "completed"
    /\ jobs[a].result[1].publicUrl = Some(SaveImageResult("scene-gen", 1).publicUrl)
    /\ jobs[b].task = "relight"
    /\ jobs[b].status = "processing"
    /\ proc[b].exec.pc = "save"

\* ------------------------------------------------------------------------
\* Properties of the routing table and the routing lookup
\* ------------------------------------------------------------------------

\* C21: the routing table has an entry for exactly the tasks of the AITask
\* union, the lookup of each yields that entry, and each entry has a
\* non-empty model, a primary provider in {gemini, zai} and a fallback that
\* is null or in {gemini, zai}; a call for a task of the union never fails
\* its routing lookup and attempts the entry's primary first.
C21_RoutingTableComplete ==
  /\ DOMAIN AI_ROUTING = AITask
  /\ \A task \in AITask :
       /\ HasRouting(task)
       /\ getProviderForTask(task) = AI_ROUTING[task]
       /\ DOMAIN AI_ROUTING[task] = { "primary", "model", "fallback" }
       /\ AI_ROUTING[task].model # ""
       /\ AI_ROUTING[task].primary \in { "gemini", "zai" }
       /\ AI_ROUTING[task].fallback \in { NULL, "gemini", "zai" }
  /\ (sync.pc # "idle" /\ sync.input.task \in AITask)
       => /\ sync.pc # "threw"
          /\ sync.created[1] = AI_ROUTING[sync.input.task].primary

\* a call for text-removal (the last entry, without fallback) has resolved
\* its routing entry and is attempting gemini
C21_Witness ==
  /\ sync.pc = "create"
  /\ sync.input.task = "text-removal"
  /\ sync.provider = "gemini"
  /\ sync.model = GeminiModel

\* C22: a generateSync call for a task that has no entry in the routing table
\* rejects with the routing error, without attempting any provider and
\* without returning a result.
C22_UnroutedThrows ==
  (sync.pc # "idle" /\ sync.input.task \notin DOMAIN AI_ROUTING)
    => /\ sync.pc = "threw"
       /\ sync.thrown =
            Some(Err("No provider configuration found for task: " \o sync.input.task))
       /\ sync.result = None
       /\ sync.created = << >>
       /\ sync.called = << >>

\* ------------------------------------------------------------------------
\* Properties of the job store handle
\* ------------------------------------------------------------------------

\* C23: every job the AIService has created is found in the store instance
\* getJobStore() returns now.
C23_OneAuthoritativeStore ==
  \A id \in DOMAIN jobs : JobStoreGet(StoreJobs(getJobStore), id) # None

\* ------------------------------------------------------------------------
\* Properties of the job record
\* ------------------------------------------------------------------------

\* C24: a Pending or Processing job has no result, no error and no
\* completedAt; a Completed job has a result and a completedAt and no error;
\* a Failed job has an error and a completedAt and no result.
C24_FieldsMatchStatus ==
  \A id \in DOMAIN jobs :
    /\ jobs[id].status \in { "pending", "processing", "completed", "failed" }
    /\ jobs[id].status \in { "pending", "processing" }
         => /\ jobs[id].result = None
            /\ jobs[id].error = None
            /\ jobs[id].completedAt = None
    /\ jobs[id].status = "completed"
         => /\ jobs[id].result # None
            /\ jobs[id].completedAt # None
            /\ jobs[id].error = None
    /\ jobs[id].status = "failed"
         => /\ jobs[id].error # None
            /\ jobs[id].completedAt # None
            /\ jobs[id].result = None

\* one job is Failed with both attempts' errors while another is still
\* Pending, its generateAsync call not yet resumed
C24_Witness ==
  \E a, b \in DOMAIN jobs :
    /\ jobs[a].status = "failed"
    /\ jobs[a].task = "scene-gen"
    /\ jobs[a].error # None
    /\ jobs[b].status = "pending"
    /\ proc[b].pc = "awaitCreate"

\* ------------------------------------------------------------------------
\* Properties of the fallback attempt and of the success result
\* ------------------------------------------------------------------------

\* the generateImage call made on the given provider, if any
CallOn(provider) ==
  { i \in 1..Len(sync.called) : sync.called[i].provider = provider }

\* C25: generateImage is called on the fallback provider with the fixed
\* model of that provider ('gemini-2.5-flash-preview-05-20' for gemini,
\* 'glm-image' for zai), with the task, input and options of the request and
\* the prompt derived from it, the same as in the call on the primary when
\* there was one; a success served by the fallback reports that model.
C25_FallbackDefaultModel ==
  (sync.pc # "idle" /\ sync.input.task \in DOMAIN AI_ROUTING)
    => /\ \A i \in CallOn(Config.fallback) :
            /\ Config.fallback = "gemini"
                 => sync.called[i].model = "gemini-2.5-flash-preview-05-20"
            /\ Config.fallback = "zai" => sync.called[i].model = "glm-image"
            /\ sync.called[i].task = sync.input.task
            /\ sync.called[i].inputUrl = sync.input.inputUrl
            /\ sync.called[i].providerOptions = sync.input.options
            /\ sync.input.prompt # "" => sync.called[i].prompt = sync.input.prompt
            /\ sync.called[i].prompt # ""
            /\ \A j \in CallOn(Config.primary) :
                 /\ j < i
                 /\ sync.called[j].prompt = sync.called[i].prompt
                 /\ sync.called[j].task = sync.called[i].task
                 /\ sync.called[j].inputUrl = sync.called[i].inputUrl
                 /\ sync.called[j].providerOptions = sync.called[i].providerOptions
       /\ (Returned /\ Res.success /\ Res.provider = Config.fallback)
            => /\ Config.fallback = "gemini"
                    => Res.model = "gemini-2.5-flash-preview-05-20"
               /\ Config.fallback = "zai" => Res.model = "glm-image"

\* remove-bg without an explicit prompt and with options: gemini was called
\* and failed, zai served the request with glm-image
C25_Witness ==
  /\ Returned
  /\ Res.success
  /\ sync.input.task = "remove-bg"
  /\ sync.input.prompt = NoPrompt
  /\ sync.input.options # None
  /\ Len(sync.called) = 2
  /\ sync.called[2].provider = "zai"
  /\ sync.called[2].model = ZaiModel
  /\ sync.called[1].model = GeminiModel
  /\ Res.provider = "zai"

\* C26: a success result carries the duration and the cost of the outcome
\* the serving provider returned, and nothing of an earlier failed attempt;
\* its provider is the serving provider, the primary when the primary attempt
\* served and the fallback otherwise; and outputUrls has one entry for each
\* image of that outcome.
C26_SuccessFromServingOutcome ==
  (Returned /\ Res.success)
    => /\ Res.duration = sync.duration
       /\ Res.cost = sync.cost
       /\ Res.duration \in { 1500, 2000 }
       /\ Res.cost \in { 5, 6 }
       /\ Res.provider = sync.called[Len(sync.called)].provider
       /\ Res.provider = sync.created[Len(sync.created)]
       /\ Len(sync.raised) = 0 => Res.provider = Config.primary
       /\ Len(sync.raised) = 1 => Res.provider = Config.fallback
       /\ Len(Res.outputUrls[1]) = Len(sync.images)
       /\ Res.error = None

\* scene-gen without an explicit prompt, served by zai, its primary, with one
\* image at cost 5 after 1500 ms
C26_Witness ==
  /\ Returned
  /\ Res.success
  /\ sync.input.task = "scene-gen"
  /\ sync.input.prompt = NoPrompt
  /\ Len(sync.raised) = 0
  /\ Len(Res.outputUrls[1]) = 1
  /\ Res.provider = "zai"
  /\ Res.cost = 5
  /\ Res.duration = 1500

\* C27: the steps of a direct generateSync call and a getJobStatus call
\* leave the job store as it is, at every point of every job's lifecycle and
\* whether they succeed or fail; every change of the store is a step of a
\* generateAsync call or of a background worker.
C27_ReadersLeaveStore ==
  /\ [][sync' # sync => jobs' = jobs]_vars
  /\ [][polled' # polled => jobs' = jobs]_vars
  /\ [][jobs' # jobs =>
          \/ DOMAIN jobs' # DOMAIN jobs /\ asyncOutcome' = asyncOutcome
               /\ \E id \in DOMAIN proc' \ DOMAIN proc : proc'[id].pc = "awaitCreate"
          \/ \E id \in DOMAIN proc :
               /\ DOMAIN jobs' = DOMAIN jobs
               /\ proc'[id] # proc[id]
               /\ \A other \in DOMAIN jobs \ { id } : jobs'[other] = jobs[other]]_vars

\* a poll and a direct generateSync call both
\* answered while job 1 was Processing
C27_Witness ==
  /\ Returned
  /\ Res.success
  /\ 1 \in DOMAIN jobs
  /\ jobs[1].status = "processing"
  /\ proc[1].pc = "running"
  /\ polled # None
  /\ polled[1].jobId = 1
  /\ polled[1].response # None
  /\ polled[1].response[1].status = "processing"

\* C28: a job's provider field is the primary provider of its task from
\* creation on, and no step changes it: a Completed job that the fallback
\* provider served still names the primary provider.
C28_ProviderFieldIsPrimary ==
  /\ [](\A id \in DOMAIN jobs :
          jobs[id].provider = getProviderForTask(jobs[id].task).primary)
  /\ [][\A id \in DOMAIN jobs : jobs'[id].provider = jobs[id].provider]_vars

\* a scene-gen job is Completed with the image the second saveImage call of
\* its execution stored, the fallback's (the primary's save was rejected),
\* and names zai, the primary
C28_Witness ==
  \E id \in DOMAIN jobs :
    /\ jobs[id].status = "completed"
    /\ jobs[id].task = "scene-gen"
    /\ AI_ROUTING["scene-gen"].fallback = "gemini"
    /\ jobs[id].result[1].publicUrl = Some(SaveImageResult("scene-gen", 2).publicUrl)
    /\ jobs[id].provider = "zai"

\* C29: a generateAsync call for a task that has no entry in the routing
\* table creates no job and starts no background work, so the store holds
\* jobs of routed tasks only, only those have a worker, and no job records
\* the routing error.
C29_UnroutedCreatesNoJob ==
  /\ \A id \in DOMAIN jobs :
       /\ jobs[id].task \in DOMAIN AI_ROUTING
       /\ jobs[id].error # Some(RoutingErrorMessage(jobs[id].task))
  /\ \A id \in DOMAIN proc : proc[id].input.task \in DOMAIN AI_ROUTING

\* C30: an update for an id that is not in the store stores nothing: a job
\* removed by JobStore.delete stays absent whatever its worker does
\* afterwards, the worker's Processing, Completed and Failed updates leave
\* the store as it is, and getJobStatus answers not-found for it.
C30_RemovedJobStaysRemoved ==
  /\ [](\A id \in DOMAIN removed : id \notin DOMAIN jobs)
  /\ [][\A id \in DOMAIN jobs' : id \in DOMAIN jobs \/ id = nextId]_vars
  /\ [][\A id \in DOMAIN removed :
          proc'[id] # proc[id] => jobs' = jobs]_vars
  /\ [][(polled' # polled /\ polled'[1].jobId \in DOMAIN removed)
          => polled'[1].response = None]_vars

\* job 1 was removed while generateSync was running for it; its worker has
\* since made its terminal update, and a poll for it answered not-found
C30_Witness ==
  /\ 1 \in DOMAIN removed
  /\ removed[1] = "running"
  /\ proc[1].pc = "done"
  /\ 1 \notin DOMAIN jobs
  /\ polled = Some([ jobId |-> 1, response |-> None ])

====
